---------------------------- MODULE Spec2Model ----------------------------
(***************************************************************************)
(* A model of the Torero streaming peer (src/peer/peer.go).                *)
(*                                                                         *)
(* The peer process has two regions that run concurrently:                 *)
(*   - the command loop of main (handle_command) with the playback        *)
(*     session tasks it spawns (receive_mp3 and its io.Copy goroutine);    *)
(*   - the epoll server loop (serve_songs_epoll) with the request         *)
(*     handlers it dispatches (receive_message_epoll, send_mp3_file).      *)
(* They share the global master_list and the life of the process: a panic  *)
(* in any goroutine, or os.Exit, ends every goroutine.                     *)
(*                                                                         *)
(* Strings are sequences of one-character strings, so that the parsing of  *)
(* the master list is computed the way the code computes it.               *)
(***************************************************************************)
EXTENDS Integers, Sequences, FiniteSets, TLC

VARIABLES
    procState,    \* "running", "exited" (os.Exit or main returned), "crashed" (panic)
    master_list,  \* the global string master_list
    cmdPc,        \* where the main goroutine is: "prompt", "play_send", "stop_send", "ended",
                  \* or the call of send() that ended the process ("list_dial", ...)
    quit_sent,    \* a QUIT message was encoded on a tracker connection
    tasks,        \* the receive_mp3 goroutines, in the order PLAY spawned them
    loopPc,       \* serve_songs_epoll: "start", "wait" (in EpollWait), "process" (in the
                  \* for loop); "wait_unbound", "process_unbound" after a failed bind or listen
    batch,        \* the events EpollWait returned that the for loop has not reached yet
    ready,        \* descriptors with an undelivered readiness event in the epoll set
    fdTable,      \* descriptor number -> connection it refers to (0: descriptor closed)
    conns,        \* the connections remote peers make to this server
    handlers      \* the receive_message_epoll goroutines, in dispatch order

playerVars == <<cmdPc, quit_sent, tasks>>
serverVars == <<loopPc, batch, ready, fdTable, conns, handlers>>
vars == <<procState, master_list, cmdPc, quit_sent, tasks,
          loopPc, batch, ready, fdTable, conns, handlers>>

-----------------------------------------------------------------------------
(* Bounds of the model. *)

MaxPlays == 3       \* PLAY commands issued in one run
MaxFrames == 2      \* audio frames in one song stream
MaxConns == 2       \* connections remote peers make in one run
MaxHandlers == 3    \* request handlers dispatched in one run

(* Message types, the iota constants of the source. *)
INIT == 0
LIST == 1
INFO == 2
PLAY == 3
STOP == 4
QUIT == 5

-----------------------------------------------------------------------------
(* Go string functions used by the source. *)

Min(S) == CHOOSE x \in S : \A y \in S : x <= y

SepPos(s, sep) == {i \in 1..Len(s) : s[i] = sep}

\* Position of the k-th separator; 0 before the first piece, Len(s)+1 after the last.
NthSep(s, sep, k) ==
    IF k = 0 THEN 0
    ELSE IF k > Cardinality(SepPos(s, sep)) THEN Len(s) + 1
    ELSE CHOOSE i \in SepPos(s, sep) :
            Cardinality({j \in SepPos(s, sep) : j <= i}) = k

\* strings.Split(s, sep) for a one-character separator: n separators give n+1 pieces.
Split(s, sep) ==
    [k \in 1..(Cardinality(SepPos(s, sep)) + 1) |->
        SubSeq(s, NthSep(s, sep, k - 1) + 1, NthSep(s, sep, k) - 1)]

\* strings.Index(s, ch) for a one-character needle: 0-based, -1 when absent.
Index(s, ch) == IF SepPos(s, ch) = {} THEN -1 ELSE Min(SepPos(s, ch)) - 1

\* strings.Replace(s, ", ", "\t", -1)
RECURSIVE ReplaceCommaSpace(_)
ReplaceCommaSpace(s) ==
    IF s = <<>> THEN <<>>
    ELSE IF Len(s) >= 2 /\ s[1] = "," /\ s[2] = " "
         THEN <<"\t">> \o ReplaceCommaSpace(SubSeq(s, 3, Len(s)))
         ELSE <<s[1]>> \o ReplaceCommaSpace(Tail(s))

Digit(d) == <<"0", "1", "2", "3", "4", "5", "6", "7", "8", "9">>[d + 1]

\* strconv.Itoa
RECURSIVE Itoa(_)
Itoa(n) ==
    IF n < 0 THEN <<"-">> \o Itoa(-n)
    ELSE IF n < 10 THEN <<Digit(n)>>
    ELSE Itoa(n \div 10) \o <<Digit(n % 10)>>


-----------------------------------------------------------------------------
(* The songs of the model.  A master-list row is a string                  *)
(*   <id>: <host>:, <title>, <artist>> <filename>                          *)
(* the shape that get_song_filename, get_song_selection and                *)
(* print_master_list all parse.  Songs 1 and 2 are hosted by this peer     *)
(* (their files are in songs/); song 3 is hosted by another peer.          *)

Row(id, host, title, artist, file) ==
    Itoa(id) \o <<":", " ", host, ":", ",", " ", title, ",", " ", artist, ">", " ", file>>

ListA == Row(1, "h", "t", "a", "x") \o <<"\n">> \o Row(2, "h", "u", "b", "y")
            \o <<"\n">> \o Row(3, "g", "v", "c", "z")
ListB == Row(1, "h", "t", "a", "x") \o <<"\n">> \o Row(2, "h", "u", "b", "y")

\* What the tracker can answer to LIST once this peer has announced songs 1 and 2.
MasterLists == {ListA, ListB}

\* The ids of the songs this peer hosts and announced in become_discoverable.
LocalSongs == {1, 2}

\* The files under songs/, by name, with their bytes.
Files == (<<"x">> :> <<11, 12>>) @@ (<<"y">> :> <<21, 22>>)

\* The file that holds a hosted song.
LocalFile(id) == IF id = 1 THEN <<"x">> ELSE <<"y">>

\* The song ids a remote peer may put in a PLAY request: 0 is in no list,
\* 3 is listed but held by another peer.
RequestIds == {0, 1, 2, 3}

\* get_song_filename: the file name in the first row of master_list whose id
\* field equals id; "" when no row matches.  r[end+2:] panics when end+2
\* exceeds the length of the row.  list is the string its read of the
\* global master_list produced.
get_song_filename(list, id) ==
    LET rows == Split(list, "\n")
        hits == {k \in DOMAIN rows : Split(rows[k], ":")[1] = id}
    IN  IF hits = {} THEN [panic |-> FALSE, name |-> <<>>]
        ELSE LET r == ReplaceCommaSpace(rows[Min(hits)])
                 end == Index(r, ">")
             IN  IF end + 2 > Len(r)
                 THEN [panic |-> TRUE, name |-> <<>>]
                 ELSE [panic |-> FALSE, name |-> SubSeq(r, end + 3, Len(r))]

\* The ids get_song_selection accepts: the id field of some row of master_list.
SelectableIds ==
    LET rows == Split(master_list, "\n")
    IN  {id \in RequestIds : \E k \in DOMAIN rows : Split(rows[k], ":")[1] = Itoa(id)}

-----------------------------------------------------------------------------
(* The command loop and the playback sessions. *)

Running == procState = "running"

\* A receive_mp3 goroutine as go receive_mp3(peer, play, stop) starts it.
\* kind is what the remote peer sends back: a song ("mp3"), nothing before it
\* closes ("empty", the song was unavailable) or bytes that are no MP3 ("garbage").
NewTask(kind) ==
    [pc |-> "select", connOpen |-> TRUE, kind |-> kind,
     left |-> IF kind = "mp3" THEN MaxFrames ELSE 0,
     decoders |-> 0, players |-> 0, copiers |-> 0, sunk |-> 0, ended |-> FALSE]

StreamKinds == {"mp3", "empty", "garbage"}

Live(t) == tasks[t].pc = "select"
LiveTasks == {t \in DOMAIN tasks : Live(t)}
Idle == LiveTasks = {}

\* The deferred calls of receive_mp3 run at its return or panic:
\* player.Close(), decoder.Close() for every iteration that set them up, server.Close().
RunDefers(task) ==
    [task EXCEPT !.pc = "returned", !.connOpen = FALSE, !.decoders = 0, !.players = 0]

\* mp3.NewDecoder(server): what it can return for the bytes the peer sends.  A
\* second decoder on a connection that another decoder is already draining
\* starts wherever that one has got to.
DecoderOutcomes(task) ==
    IF task.kind = "empty" THEN {"eof"}
    ELSE IF task.kind = "garbage" THEN {"err"}
    ELSE IF task.decoders = 0 /\ ~task.ended THEN {"ok"}
    ELSE {"ok", "eof", "err"}

\* oto.NewPlayer: the audio device opens or the driver reports an error.
PlayerOutcomes == {"ok", "err"}


\* send(): net.Dial fails, the error is printed and os.Exit(1) ends the
\* process; at names the call of send() the command loop was in.
send_fails(at) ==
    /\ procState' = "exited"
    /\ cmdPc' = at
    /\ UNCHANGED <<master_list, quit_sent, tasks, serverVars>>

\* LIST: the dial succeeds and receive_master_list stores the reply's payload.
CmdList ==
    /\ Running /\ cmdPc = "prompt"
    /\ \E l \in MasterLists : master_list' = l
    /\ UNCHANGED <<procState, cmdPc, quit_sent, tasks, serverVars>>

CmdListDialFail == Running /\ cmdPc = "prompt" /\ send_fails("list_dial")

\* INFO: get_song_selection and get_song_info only print.
CmdInfo ==
    /\ Running /\ cmdPc = "prompt"
    /\ SelectableIds # {}
    /\ UNCHANGED vars

\* PLAY up to the send on the play channel: a valid id is selected, the peer
\* is dialed, the request sent and go receive_mp3(peer, play, stop) started.
CmdPlay ==
    /\ Running /\ cmdPc = "prompt"
    /\ SelectableIds # {}
    /\ Len(tasks) < MaxPlays
    /\ \E kind \in StreamKinds : tasks' = Append(tasks, NewTask(kind))
    /\ cmdPc' = "play_send"
    /\ UNCHANGED <<procState, master_list, quit_sent, serverVars>>

CmdPlayDialFail ==
    /\ Running /\ cmdPc = "prompt"
    /\ SelectableIds # {}
    /\ send_fails("play_dial")

\* STOP up to the send on the stop channel.
CmdStop ==
    /\ Running /\ cmdPc = "prompt"
    /\ cmdPc' = "stop_send"
    /\ UNCHANGED <<procState, master_list, quit_sent, tasks, serverVars>>

\* QUIT that returns -1 without a message to the tracker.
CmdQuit_silent ==
    /\ Running /\ cmdPc = "prompt"
    /\ cmdPc' = "ended"
    /\ UNCHANGED <<procState, master_list, quit_sent, tasks, serverVars>>

\* QUIT: the QUIT message is sent to the tracker and handle_command returns -1.
CmdQuit ==
    /\ Running /\ cmdPc = "prompt"
    /\ quit_sent' = TRUE
    /\ cmdPc' = "ended"
    /\ UNCHANGED <<procState, master_list, tasks, serverVars>>

CmdQuitDialFail == Running /\ cmdPc = "prompt" /\ send_fails("quit_dial")

\* main: the for loop breaks and main returns, which ends the process.
MainReturn ==
    /\ Running /\ cmdPc = "ended"
    /\ procState' = "exited"
    /\ UNCHANGED <<master_list, cmdPc, quit_sent, tasks, serverVars>>

\* receive_mp3, case <-play, both set-ups succeed: task t takes the value main
\* is sending, opens a decoder and a player, defers their Close and starts
\* the io.Copy goroutine; it is then back at the select.
StartStreaming(t) ==
    /\ Running /\ cmdPc = "play_send"
    /\ t \in LiveTasks
    /\ "ok" \in DecoderOutcomes(tasks[t]) /\ "ok" \in PlayerOutcomes
    /\ tasks' = [tasks EXCEPT ![t].decoders = @ + 1, ![t].players = @ + 1,
                              ![t].copiers = @ + 1]
    /\ cmdPc' = "prompt"
    /\ UNCHANGED <<procState, master_list, quit_sent, serverVars>>

\* receive_mp3, case <-play, mp3.NewDecoder returns io.EOF: the task returns.
PlayEndOfStream(t) ==
    /\ Running /\ cmdPc = "play_send"
    /\ t \in LiveTasks
    /\ "eof" \in DecoderOutcomes(tasks[t])
    /\ tasks' = [tasks EXCEPT ![t] = RunDefers(@)]
    /\ cmdPc' = "prompt"
    /\ UNCHANGED <<procState, master_list, quit_sent, serverVars>>

\* receive_mp3, case <-play, mp3.NewDecoder or oto.NewPlayer returns another
\* error: panic(err).  The deferred calls run and the process dies.
PlayPanic(t) ==
    /\ Running /\ cmdPc = "play_send"
    /\ t \in LiveTasks
    /\ "err" \in DecoderOutcomes(tasks[t])
          \cup (IF "ok" \in DecoderOutcomes(tasks[t]) THEN PlayerOutcomes ELSE {})
    /\ tasks' = [tasks EXCEPT ![t] = RunDefers(@)]
    /\ cmdPc' = "prompt"
    /\ procState' = "crashed"
    /\ UNCHANGED <<master_list, quit_sent, serverVars>>

\* receive_mp3, case <-stop: task t takes the value main is sending and returns.
StopSignal(t) ==
    /\ Running /\ cmdPc = "stop_send"
    /\ t \in LiveTasks
    /\ tasks' = [tasks EXCEPT ![t] = RunDefers(@)]
    /\ cmdPc' = "prompt"
    /\ UNCHANGED <<procState, master_list, quit_sent, serverVars>>

\* io.Copy(player, decoder) moves one frame from the connection to the sink.
CopyFrame(t) ==
    /\ Running
    /\ t \in DOMAIN tasks
    /\ tasks[t].copiers > 0 /\ tasks[t].connOpen /\ tasks[t].players > 0
    /\ tasks[t].left > 0
    /\ tasks' = [tasks EXCEPT ![t].left = @ - 1, ![t].sunk = @ + 1]
    /\ UNCHANGED <<procState, master_list, cmdPc, quit_sent, serverVars>>

\* io.Copy reads end-of-stream: the anonymous goroutine ends, and that is all
\* it does.
CopyEOF(t) ==
    /\ Running
    /\ t \in DOMAIN tasks
    /\ tasks[t].copiers > 0 /\ tasks[t].connOpen
    /\ tasks[t].left = 0
    /\ tasks' = [tasks EXCEPT ![t].copiers = @ - 1, ![t].ended = TRUE]
    /\ UNCHANGED <<procState, master_list, cmdPc, quit_sent, serverVars>>

\* io.Copy fails on the closed connection or player: the goroutine ends.
CopyAbort(t) ==
    /\ Running
    /\ t \in DOMAIN tasks
    /\ tasks[t].copiers > 0 /\ ~tasks[t].connOpen
    /\ tasks' = [tasks EXCEPT ![t].copiers = @ - 1]
    /\ UNCHANGED <<procState, master_list, cmdPc, quit_sent, serverVars>>


-----------------------------------------------------------------------------
(* The wire: what gob.NewEncoder(conn).Encode(msg) writes for a TSP_msg    *)
(* and what gob.NewDecoder(M).Decode(&in_msg) makes of a buffer.           *)
(*                                                                         *)
(* A gob stream is the type definitions followed by one length-prefixed    *)
(* value message: the type id, then the fields as (field delta, value)     *)
(* pairs, zero-valued fields omitted, every struct closed by a 0.          *)

GobTypeDefs == <<255, 254>>   \* stands for the type-definition messages
MsgTypeId == 130              \* the type id that opens the value message

\* gob's signed integers: the sign in the low bit.
Zigzag(i) == IF i < 0 THEN 2 * (-i - 1) + 1 ELSE 2 * i
UnZigzag(u) == IF u % 2 = 1 THEN -((u - 1) \div 2) - 1 ELSE u \div 2

\* prepare_msg(t, id, nil) as send() encodes it.
Encode(t, id) ==
    LET header == (IF t # 0 THEN <<1, t>> ELSE <<>>)
                  \o (IF id # 0 THEN <<(IF t # 0 THEN 1 ELSE 2), Zigzag(id)>> ELSE <<>>)
                  \o <<0>>
        body == <<MsgTypeId, 1>> \o header \o <<0>>
    IN  GobTypeDefs \o <<Len(body)>> \o body

\* new(TSP_msg): the zero message.
ZeroMsg == [Type |-> 0, Song_id |-> 0]

\* The fields of TSP_header from position p of the value message b.  Decoded
\* fields are stored as they are met, so a failure leaves the earlier ones set.
RECURSIVE DecodeHeader(_, _, _, _)
DecodeHeader(b, p, field, h) ==
    IF p > Len(b) THEN [msg |-> h, next |-> p, ok |-> FALSE]
    ELSE IF b[p] = 0 THEN [msg |-> h, next |-> p + 1, ok |-> TRUE]
    ELSE IF field + b[p] > 2 \/ p + 1 > Len(b) THEN [msg |-> h, next |-> p, ok |-> FALSE]
    ELSE IF field + b[p] = 1
         THEN DecodeHeader(b, p + 2, 1, [h EXCEPT !.Type = b[p + 1]])
         ELSE DecodeHeader(b, p + 2, 2, [h EXCEPT !.Song_id = UnZigzag(b[p + 1])])

\* The byte at position i of a 1024-byte buffer whose first Len(buf) bytes
\* were read and whose other bytes are still the zeros make() put there.
At(buf, i) == IF i <= Len(buf) THEN buf[i] ELSE 0

\* decoder.Decode(&in_msg) on the whole buffer, returning in_msg as it is
\* afterwards; the error Decode returns is dropped by the caller.
Decode(buf) ==
    IF \E i \in 1..Len(GobTypeDefs) : At(buf, i) # GobTypeDefs[i] THEN ZeroMsg
    ELSE LET n == At(buf, Len(GobTypeDefs) + 1)
             b == [i \in 1..n |-> At(buf, Len(GobTypeDefs) + 1 + i)]
         IN  IF n < 2 \/ b[1] # MsgTypeId THEN ZeroMsg
             ELSE IF b[2] # 1 THEN ZeroMsg
             ELSE DecodeHeader(b, 3, 0, ZeroMsg).msg

\* Bytes that are no gob stream.
Garbage == <<7, 7>>

\* What a remote peer may send on a connection: a PLAY request, a message of
\* another type, or bytes that are no message.  Every type but PLAY takes the
\* switch's default; INIT, whose zero gob leaves out, and QUIT stand for them.
NoMessage == [Type |-> -1, Song_id |-> 0]
RequestTypes == {INIT, QUIT}
Requests ==
    {[Type |-> PLAY, Song_id |-> id] : id \in RequestIds}
        \cup {[Type |-> t, Song_id |-> 0] : t \in RequestTypes} \cup {NoMessage}

\* The bytes of a request on the wire.
Frame(req) == IF req = NoMessage THEN Garbage ELSE Encode(req.Type, req.Song_id)


-----------------------------------------------------------------------------
(* The remote peers and the kernel's side of their connections. *)

MaxSegments == 2    \* pieces in which one request may arrive
MaxSplitConns == 1  \* connections in a run in which requests arrive in pieces

LISTEN == 0                  \* the listening descriptor, as an event
ConnFds == 1..MaxConns       \* the numbers accept can return

\* A connection; nonblock is the O_NONBLOCK flag of its socket in the server,
\* which a socket that syscall.Accept returns does not have.
NoConn ==
    [state |-> "none", req |-> NoMessage, out |-> <<>>, segs |-> 0, rcv |-> <<>>,
     peerClosed |-> FALSE, nonblock |-> FALSE, sent |-> <<>>]

Pending == {c \in DOMAIN conns : conns[c].state = "pending"}
FreeFds == {fd \in ConnFds : fdTable[fd] = 0}

\* The descriptor that refers to connection c, 0 when there is none.
FdOf(c) == IF \E fd \in ConnFds : fdTable[fd] = c
           THEN CHOOSE fd \in ConnFds : fdTable[fd] = c ELSE 0

\* A readable event for connection c, if a descriptor is registered for it.
Notify(c) == IF FdOf(c) # 0 THEN ready \cup {FdOf(c)} ELSE ready

\* A peer dials the server once it listens: the connection waits in the
\* listen backlog.
PeerConnect(c) ==
    /\ Running /\ loopPc \in {"wait", "process"}
    /\ c \in DOMAIN conns /\ conns[c].state = "none"
    /\ \A d \in 1..(c - 1) : conns[d].state # "none"
    /\ \E req \in Requests :
          conns' = [conns EXCEPT ![c] = [NoConn EXCEPT !.state = "pending",
                                                       !.req = req, !.out = Frame(req)]]
    /\ UNCHANGED <<procState, master_list, playerVars, loopPc, batch, ready, fdTable, handlers>>

\* What is left of the peer's request arrives in the socket's receive buffer.
PeerSend(c) ==
    /\ Running
    /\ c \in DOMAIN conns /\ conns[c].state \in {"pending", "accepted"}
    /\ ~conns[c].peerClosed
    /\ conns[c].out # <<>>
    /\ conns' = [conns EXCEPT ![c].rcv = @ \o conns[c].out,
                              ![c].out = <<>>,
                              ![c].segs = @ + 1]
    /\ ready' = Notify(c)
    /\ UNCHANGED <<procState, master_list, playerVars, loopPc, batch, fdTable, handlers>>

\* Only the next k bytes of the peer's request arrive: the network has cut
\* the request into pieces.
PeerSendPart(c) ==
    /\ Running
    /\ c \in DOMAIN conns /\ conns[c].state \in {"pending", "accepted"}
    /\ ~conns[c].peerClosed
    /\ conns[c].segs + 2 <= MaxSegments
    /\ \E k \in 1..(Len(conns[c].out) - 1) :
          conns' = [conns EXCEPT ![c].rcv = @ \o SubSeq(conns[c].out, 1, k),
                                 ![c].out = SubSeq(@, k + 1, Len(@)),
                                 ![c].segs = @ + 1]
    /\ ready' = Notify(c)
    /\ UNCHANGED <<procState, master_list, playerVars, loopPc, batch, fdTable, handlers>>

\* The peer closes its end once it has sent its request.
PeerClose(c) ==
    /\ Running
    /\ c \in DOMAIN conns /\ conns[c].state \in {"pending", "accepted", "closed"}
    /\ ~conns[c].peerClosed /\ conns[c].out = <<>>
    /\ conns' = [conns EXCEPT ![c].peerClosed = TRUE]
    /\ ready' = Notify(c)
    /\ UNCHANGED <<procState, master_list, playerVars, loopPc, batch, fdTable, handlers>>

-----------------------------------------------------------------------------
(* serve_songs_epoll: the event loop. *)

\* serve_songs_epoll up to the for loop, Bind and Listen succeed: the epoll
\* instance is made, the listening descriptor registered, the loop entered.
ServeListen ==
    /\ Running /\ loopPc = "start"
    /\ loopPc' = "wait"
    /\ UNCHANGED <<procState, master_list, playerVars, batch, ready, fdTable, conns, handlers>>

\* serve_songs_epoll up to the for loop, syscall.Bind or syscall.Listen
\* fails: their results are dropped, so the same statements follow and the
\* loop is entered with a socket no peer of the model can reach.
ServeListenFails ==
    /\ Running /\ loopPc = "start"
    /\ loopPc' = "wait_unbound"
    /\ UNCHANGED <<procState, master_list, playerVars, batch, ready, fdTable, conns, handlers>>

\* syscall.EpollWait on the socket that does not listen: it blocks (this
\* step is not taken), or reports the socket as hung up.
EpollWaitHup ==
    /\ Running /\ loopPc = "wait_unbound"
    /\ batch' = {LISTEN}
    /\ loopPc' = "process_unbound"
    /\ UNCHANGED <<procState, master_list, playerVars, ready, fdTable, conns, handlers>>

\* syscall.Accept on the socket that does not listen fails: the error is
\* printed and the loop continues.
AcceptFails ==
    /\ Running /\ loopPc = "process_unbound"
    /\ batch' = {}
    /\ loopPc' = "wait_unbound"
    /\ UNCHANGED <<procState, master_list, playerVars, ready, fdTable, conns, handlers>>

\* syscall.EpollWait returns the ready descriptors.  The listening descriptor
\* is level-triggered: ready while a connection waits in the backlog.  An
\* accepted descriptor is edge-triggered: its event is consumed.
EpollWait ==
    /\ Running /\ loopPc = "wait"
    /\ ready # {} \/ Pending # {}
    /\ batch' = ready \cup (IF Pending # {} THEN {LISTEN} ELSE {})
    /\ ready' = {}
    /\ loopPc' = "process"
    /\ UNCHANGED <<procState, master_list, playerVars, fdTable, conns, handlers>>

\* The for loop moves on: to the next event, or back to EpollWait.
NextEvent(ev) ==
    /\ batch' = batch \ {ev}
    /\ loopPc' = IF batch' = {} THEN "wait" ELSE "process"

\* An event of the listening descriptor: syscall.Accept returns the lowest
\* free descriptor number for the oldest waiting connection, and EpollCtl
\* registers it with EPOLLIN | EPOLLET; bytes that are already there make it ready.
\* In between, syscall.SetNonblock(fd, true) is given fd, the listening
\* descriptor, not connFd: the connection's flag stays as Accept left it.
LoopAccept ==
    /\ Running /\ loopPc = "process"
    /\ LISTEN \in batch
    /\ Pending # {} /\ FreeFds # {}
    /\ LET c == Min(Pending)
           fd == Min(FreeFds)
       IN  /\ fdTable' = [fdTable EXCEPT ![fd] = c]
           /\ conns' = [conns EXCEPT ![c].state = "accepted"]
           /\ ready' = IF conns[c].rcv # <<>> \/ conns[c].peerClosed
                       THEN ready \cup {fd} ELSE ready
    /\ NextEvent(LISTEN)
    /\ UNCHANGED <<procState, master_list, playerVars, handlers>>

\* The part of master_list's string header (data pointer, length) a handler
\* has loaded so far.  A pointer is written as the bytes it points to, the nil
\* pointer of the empty string as <<>>.
NoHeader == [word |-> "none", ptr |-> <<>>, len |-> 0]

\* A handler as go receive_message_epoll(fd) starts it.  conn is the
\* connection the descriptor number refers to at that moment, from the one
\* whose bytes its Read took and got the number of those bytes (0: none).
NewHandler(fd) ==
    [fd |-> fd, pc |-> "read", conn |-> fdTable[fd], from |-> 0, got |-> 0,
     in_msg |-> ZeroMsg, hdr |-> NoHeader, song_file |-> <<>>]

\* The dispatch as a plain call, receive_message_epoll(fd) without go: the
\* loop goes on only when the handler has returned.
LoopDispatch_inline(fd) ==
    /\ Running /\ loopPc = "process"
    /\ fd \in batch /\ fd # LISTEN
    /\ Len(handlers) < MaxHandlers
    /\ \A h \in DOMAIN handlers : handlers[h].pc \in {"done", "panicked", "faulted"}
    /\ handlers' = Append(handlers, NewHandler(fd))
    /\ NextEvent(fd)
    /\ UNCHANGED <<procState, master_list, playerVars, ready, fdTable, conns>>

\* An event of any other descriptor: go receive_message_epoll(fd).
LoopDispatch(fd) ==
    /\ Running /\ loopPc = "process"
    /\ fd \in batch /\ fd # LISTEN
    /\ Len(handlers) < MaxHandlers
    /\ handlers' = Append(handlers, NewHandler(fd))
    /\ NextEvent(fd)
    /\ UNCHANGED <<procState, master_list, playerVars, ready, fdTable, conns>>


-----------------------------------------------------------------------------
(* receive_message_epoll and send_mp3_file: a request handler. *)

\* syscall.Close(fd): the number is free again and leaves the epoll set.  On a
\* number that is not open it fails and changes nothing.
syscall_Close(fd) ==
    IF fdTable[fd] = 0 THEN UNCHANGED <<fdTable, conns, ready>>
    ELSE /\ fdTable' = [fdTable EXCEPT ![fd] = 0]
         /\ conns' = [conns EXCEPT ![fdTable[fd]].state = "closed"]
         /\ ready' = ready \ {fd}

\* syscall.Write(fd, bytes): the bytes go to whatever connection the number
\* refers to now; the accepted descriptor is blocking, so all of them go.
syscall_Write(fd, bytes) ==
    IF fdTable[fd] = 0 THEN UNCHANGED conns
    ELSE conns' = [conns EXCEPT ![fdTable[fd]].sent = @ \o bytes]

\* What syscall.Read(client_fd, bytes) leaves in the buffer's first bytes: all
\* that has arrived, or nothing on end-of-stream and on a closed number.  It
\* returns when there is something to return; on a nonblocking descriptor
\* it returns at once.
CanRead(fd) ==
    IF fdTable[fd] = 0 THEN TRUE
    ELSE \/ conns[fdTable[fd]].rcv # <<>> \/ conns[fdTable[fd]].peerClosed
         \/ conns[fdTable[fd]].nonblock

\* receive_message_epoll up to the switch: one Read (it blocks while the
\* connection is open and empty), one Decode, errors dropped.
HandlerRead(h) ==
    /\ Running
    /\ h \in DOMAIN handlers /\ handlers[h].pc = "read"
    /\ CanRead(handlers[h].fd)
    /\ LET fd == handlers[h].fd
           c == fdTable[fd]
           buf == IF c = 0 THEN <<>> ELSE conns[c].rcv
           m == Decode(buf)
       IN  /\ conns' = IF c = 0 THEN conns ELSE [conns EXCEPT ![c].rcv = <<>>]
           /\ handlers' = [handlers EXCEPT
                 ![h].in_msg = m, ![h].from = c, ![h].got = Len(buf),
                 ![h].pc = IF m.Type = PLAY THEN "load" ELSE "done"]
    /\ UNCHANGED <<procState, master_list, playerVars, loopPc, batch, ready, fdTable>>

\* A byte of memory that belongs to no string the program stored.
JunkByte == "?"

RECURSIVE Junk(_)
Junk(n) == IF n = 0 THEN <<>> ELSE <<JunkByte>> \o Junk(n - 1)

\* The strings a header (ptr, len) can denote when it is used.  Within the
\* bytes ptr points to it is their prefix.  A length beyond them reads what
\* follows in memory, or faults; a nil pointer with a length faults.
StringAt(ptr, len) ==
    IF len = 0 THEN {[fault |-> FALSE, s |-> <<>>]}
    ELSE IF ptr = <<>> THEN {[fault |-> TRUE, s |-> <<>>]}
    ELSE IF len <= Len(ptr) THEN {[fault |-> FALSE, s |-> SubSeq(ptr, 1, len)]}
    ELSE {[fault |-> FALSE, s |-> ptr \o Junk(len - Len(ptr))],
          [fault |-> TRUE, s |-> <<>>]}

\* Every string a read of master_list can produce, and get_song_filename on
\* each of them for each id a request can carry, computed once.
ReadableLists ==
    {v.s : v \in UNION {StringAt(p, Len(l)) : p \in {<<>>} \cup MasterLists,
                                              l \in {<<>>} \cup MasterLists}}
SongFileOf ==
    [list \in ReadableLists, id \in RequestIds |-> get_song_filename(list, Itoa(id))]

\* The header a handler ends up with when it loads the word it has not loaded yet.
LoadedPtr(h) == IF handlers[h].hdr.word = "ptr" THEN handlers[h].hdr.ptr ELSE master_list
LoadedLen(h) == IF handlers[h].hdr.word = "len" THEN handlers[h].hdr.len ELSE Len(master_list)

\* case PLAY, get_song_filename begins to read the global master_list: a Go
\* string is two words, and the handler loads one of them.  Nothing orders
\* this read with the store in receive_master_list, which runs in the command
\* loop's goroutine.
HandlerLoad(h) ==
    /\ Running
    /\ h \in DOMAIN handlers /\ handlers[h].pc = "load"
    /\ \E w \in {"ptr", "len"} :
          handlers' = [handlers EXCEPT
              ![h].hdr = [word |-> w,
                          ptr |-> IF w = "ptr" THEN master_list ELSE <<>>,
                          len |-> IF w = "len" THEN Len(master_list) ELSE 0],
              ![h].pc = "resolve"]
    /\ UNCHANGED <<procState, master_list, playerVars, loopPc, batch, ready, fdTable, conns>>

\* case PLAY: song_file := get_song_filename(strconv.Itoa(in_msg.Header.Song_id)),
\* from the load of the other word on.  A fault or a slice out of range is a
\* runtime panic inside get_song_filename: the process dies before
\* send_mp3_file is entered.
HandlerResolve(h) ==
    /\ Running
    /\ h \in DOMAIN handlers /\ handlers[h].pc = "resolve"
    /\ \E v \in StringAt(LoadedPtr(h), LoadedLen(h)) :
          LET id == handlers[h].in_msg.Song_id
              r == IF id \in RequestIds THEN SongFileOf[v.s, id]
                   ELSE get_song_filename(v.s, Itoa(id))
          IN  IF v.fault \/ r.panic
              THEN /\ procState' = "crashed"
                   /\ handlers' = [handlers EXCEPT ![h].hdr = NoHeader,
                                                   ![h].pc = "faulted"]
              ELSE /\ procState' = procState
                   /\ handlers' = [handlers EXCEPT ![h].hdr = NoHeader,
                                                   ![h].song_file = r.name,
                                                   ![h].pc = "send"]
    /\ UNCHANGED <<master_list, playerVars, loopPc, batch, ready, fdTable, conns>>

\* send_mp3_file with the Close not deferred but placed after the Write: a
\* panic leaves the descriptor open.
send_mp3_file_panic_noclose(h) ==
    /\ Running
    /\ h \in DOMAIN handlers /\ handlers[h].pc = "send"
    /\ handlers[h].song_file \notin DOMAIN Files
    /\ handlers' = [handlers EXCEPT ![h].pc = "panicked"]
    /\ procState' = "crashed"
    /\ UNCHANGED <<master_list, playerVars, loopPc, batch, ready, fdTable, conns>>

\* send_mp3_file, ioutil.ReadFile fails: panic(err).  The deferred
\* syscall.Close(client) runs, then the process dies.
send_mp3_file_panic(h) ==
    /\ Running
    /\ h \in DOMAIN handlers /\ handlers[h].pc = "send"
    /\ handlers[h].song_file \notin DOMAIN Files
    /\ syscall_Close(handlers[h].fd)
    /\ handlers' = [handlers EXCEPT ![h].pc = "panicked"]
    /\ procState' = "crashed"
    /\ UNCHANGED <<master_list, playerVars, loopPc, batch>>

\* send_mp3_file, the file is read: syscall.Write(client, bytes).
send_mp3_file_write(h) ==
    /\ Running
    /\ h \in DOMAIN handlers /\ handlers[h].pc = "send"
    /\ handlers[h].song_file \in DOMAIN Files
    /\ syscall_Write(handlers[h].fd, Files[handlers[h].song_file])
    /\ handlers' = [handlers EXCEPT ![h].pc = "close"]
    /\ UNCHANGED <<procState, master_list, playerVars, loopPc, batch, ready, fdTable>>

\* send_mp3_file returns: the deferred syscall.Close(client).
send_mp3_file_close(h) ==
    /\ Running
    /\ h \in DOMAIN handlers /\ handlers[h].pc = "close"
    /\ syscall_Close(handlers[h].fd)
    /\ handlers' = [handlers EXCEPT ![h].pc = "done"]
    /\ UNCHANGED <<procState, master_list, playerVars, loopPc, batch>>

-----------------------------------------------------------------------------
(* The specifications. *)

\* After main has run become_discoverable, started serve_songs_epoll with go
\* and made the two channels.
Init ==
    /\ procState = "running"
    /\ master_list = <<>>
    /\ cmdPc = "prompt"
    /\ quit_sent = FALSE
    /\ tasks = <<>>
    /\ loopPc = "start"
    /\ batch = {}
    /\ ready = {}
    /\ fdTable = [fd \in ConnFds |-> 0]
    /\ conns = [c \in 1..MaxConns |-> NoConn]
    /\ handlers = <<>>

\* The command loop with its playback sessions.
NextPlayer ==
    \/ CmdList
    \/ CmdListDialFail
    \/ CmdInfo
    \/ CmdPlay
    \/ CmdPlayDialFail
    \/ CmdStop
    \/ CmdQuit
    \/ CmdQuitDialFail
    \/ MainReturn
    \/ \E t \in 1..MaxPlays : StartStreaming(t)
    \/ \E t \in 1..MaxPlays : PlayEndOfStream(t)
    \/ \E t \in 1..MaxPlays : PlayPanic(t)
    \/ \E t \in 1..MaxPlays : StopSignal(t)
    \/ \E t \in 1..MaxPlays : CopyFrame(t)
    \/ \E t \in 1..MaxPlays : CopyEOF(t)
    \/ \E t \in 1..MaxPlays : CopyAbort(t)

\* The server with the remote peers, and the commands that touch what the
\* server shares with the command loop: master_list and the process.
NextServer ==
    \/ CmdList
    \/ ServeListen
    \/ ServeListenFails
    \/ EpollWaitHup
    \/ AcceptFails
    \/ \E c \in 1..MaxConns : PeerConnect(c)
    \/ \E c \in 1..MaxConns : PeerSend(c)
    \/ \E c \in 1..MaxConns : PeerClose(c)
    \/ EpollWait
    \/ LoopAccept
    \/ \E fd \in ConnFds : LoopDispatch(fd)
    \/ \E h \in 1..MaxHandlers : HandlerRead(h)
    \/ \E h \in 1..MaxHandlers : HandlerLoad(h)
    \/ \E h \in 1..MaxHandlers : HandlerResolve(h)
    \/ \E h \in 1..MaxHandlers : send_mp3_file_panic(h)
    \/ \E h \in 1..MaxHandlers : send_mp3_file_write(h)
    \/ \E h \in 1..MaxHandlers : send_mp3_file_close(h)

\* The server when the network may cut requests into pieces.
NextFrames ==
    \/ NextServer
    \/ \E c \in 1..MaxConns : PeerSendPart(c)

\* The same start with MaxSplitConns connections to come.
InitFrames ==
    /\ procState = "running"
    /\ master_list = <<>>
    /\ cmdPc = "prompt"
    /\ quit_sent = FALSE
    /\ tasks = <<>>
    /\ loopPc = "start"
    /\ batch = {}
    /\ ready = {}
    /\ fdTable = [fd \in ConnFds |-> 0]
    /\ conns = [c \in 1..MaxSplitConns |-> NoConn]
    /\ handlers = <<>>

Next == NextPlayer \/ NextFrames

Spec == Init /\ [][Next]_vars
SpecPlayer == Init /\ [][NextPlayer]_vars
SpecServer == Init /\ [][NextServer]_vars
SpecFrames == InitFrames /\ [][NextFrames]_vars


-----------------------------------------------------------------------------
(* The playback controller: C1 to C4, under SpecPlayer. *)

\* A session that is forwarding audio: its task is live, a player is open and
\* an io.Copy goroutine still has frames to move.
Streaming(t) ==
    /\ Live(t)
    /\ tasks[t].players > 0 /\ tasks[t].copiers > 0 /\ tasks[t].left > 0

\* Everything session t held is released: the connection, the decoders and
\* the players are closed and its task is gone.
Released(t) ==
    /\ ~Live(t)
    /\ ~tasks[t].connOpen
    /\ tasks[t].decoders = 0 /\ tasks[t].players = 0

\* C1: STOP issued while the controller is Idle is a no-op and handle_command
\* returns: whenever the command loop is in the send on the stop channel with
\* no session task alive, that send can complete.
C1_StopWhileIdleReturns ==
    (Running /\ cmdPc = "stop_send" /\ Idle)
        => ENABLED (\E t \in 1..MaxPlays : StopSignal(t))

\* C2: once a PLAY has started a streaming session, the step in which a STOP
\* command is taken leaves the controller Idle with every session's
\* connection, decoder and player released.
C2_StopEndsTheSession ==
    [][((\E t \in DOMAIN tasks : Streaming(t))
            /\ cmdPc = "stop_send" /\ cmdPc' = "prompt")
        => (\A t \in DOMAIN tasks :
               ~tasks'[t].connOpen /\ tasks'[t].pc # "select"
                   /\ tasks'[t].decoders = 0 /\ tasks'[t].players = 0)]_vars

\* C3: a session whose stream has reached end-of-stream while it was
\* streaming has ended without a STOP: its task is gone and its connection,
\* decoder and player are released.
C3_EndOfStreamEndsTheSession ==
    \A t \in DOMAIN tasks : tasks[t].ended => Released(t)

\* C4: at most one playback session is streaming at any time.
C4_OneStreamingSession ==
    Cardinality({t \in DOMAIN tasks : Streaming(t)}) <= 1


-----------------------------------------------------------------------------
(* The request handlers: C5 to C8 and C10 under SpecServer, C9 under       *)
(* SpecFrames.                                                             *)

\* Handler h is over: it returned, or it panicked.
Ended(h) == handlers[h].pc \in {"done", "panicked", "faulted"}

\* No handler has faulted on a torn read of master_list (that is C15's
\* matter): C5, C7 and C10 are stated for the runs without such a fault.
NoFault == \A h \in DOMAIN handlers : handlers[h].pc # "faulted"

\* Handler h decoded a PLAY message.
DecodedPlay(h) == handlers[h].pc # "read" /\ handlers[h].in_msg.Type = PLAY

\* The bytes of the file of a song this peer hosts.
SongBytes(id) == Files[LocalFile(id)]

\* C5: a handler that decoded a PLAY for a song the peer hosts ends having
\* written that file's bytes on the requesting connection and closed it,
\* whether or not the user has issued LIST.
C5_HostedSongIsServed ==
    \A h \in DOMAIN handlers :
        (DecodedPlay(h) /\ handlers[h].in_msg.Song_id \in LocalSongs /\ Ended(h)
              /\ NoFault)
            => /\ handlers[h].pc = "done"
               /\ conns[handlers[h].from].sent = SongBytes(handlers[h].in_msg.Song_id)
               /\ conns[handlers[h].from].state = "closed"

\* The PLAY that handler h decoded could not be resolved to a file under
\* songs/, and the handler is past send_mp3_file's ReadFile.
Unresolved(h) ==
    /\ DecodedPlay(h)
    /\ handlers[h].pc \in {"close", "done", "panicked"}
    /\ handlers[h].song_file \notin DOMAIN Files

\* C6: when the song of a PLAY request cannot be resolved, the handler has
\* closed the requesting connection and no body byte was sent on it.
C6_UnresolvedClosesEmpty ==
    \A h \in DOMAIN handlers :
        Unresolved(h)
            => /\ conns[handlers[h].from].state = "closed"
               /\ conns[handlers[h].from].sent = <<>>

\* A handler met the file-missing case of C6: song 3 is in the master list
\* and its file is not under songs/.
C6_Witness ==
    \E h \in DOMAIN handlers :
        /\ Unresolved(h)
        /\ handlers[h].song_file = <<"z">>
        /\ conns[handlers[h].from].state = "closed"

\* C7: an error in a request handler never ends the process.
C7_HandlerErrorsAreContained ==
    ((\E h \in DOMAIN handlers : handlers[h].pc # "read") /\ NoFault) => Running

\* C8: when a handler is over, the connection it was dispatched for is closed.
C8_HandlerEndsWithConnectionClosed ==
    \A h \in DOMAIN handlers :
        (Ended(h) /\ handlers[h].conn # 0) => conns[handlers[h].conn].state = "closed"

\* All of connection c's request has arrived and been read, it came in more
\* than one piece, and every handler dispatched so far is over.
SplitRequestHandled(c) ==
    /\ conns[c].segs > 1 /\ conns[c].out = <<>> /\ conns[c].rcv = <<>>
    /\ \A h \in DOMAIN handlers : Ended(h)

\* C9: a handler acts only on a complete PLAY frame, never on a piece of one,
\* and a PLAY for a hosted song that arrived in pieces is served exactly once.
C9_PiecesAreAccumulated ==
    /\ \A h \in DOMAIN handlers :
          (handlers[h].pc # "read" /\ handlers[h].got > 0
                /\ conns[handlers[h].from].req.Type = PLAY)
              => handlers[h].got >= Len(Frame(conns[handlers[h].from].req))
    /\ \A c \in DOMAIN conns :
          (SplitRequestHandled(c) /\ handlers # <<>> /\ master_list # <<>>
                /\ conns[c].req.Type = PLAY /\ conns[c].req.Song_id \in LocalSongs)
              => conns[c].sent = SongBytes(conns[c].req.Song_id)

\* Handler h has resolved the PLAY it decoded to a file under songs/.
ResolvedToFile(h) ==
    /\ DecodedPlay(h)
    /\ handlers[h].pc \in {"send", "close", "done"}
    /\ handlers[h].song_file \in DOMAIN Files

\* No connection has been sent a byte of a file other than the one its own
\* PLAY request names.
NoForeignBytes ==
    \A c \in DOMAIN conns :
        conns[c].sent # <<>>
            => /\ conns[c].req.Type = PLAY /\ conns[c].req.Song_id \in LocalSongs
               /\ conns[c].sent = SongBytes(conns[c].req.Song_id)

\* C10: under every interleaving of the loop and the handlers, each
\* connection whose PLAY request a handler has resolved to a file has
\* received exactly that file's bytes once the handler is over or the process
\* is, and no connection is ever sent a byte of another request's file.
C10_EachRequestGetsItsFile ==
    /\ \A h \in DOMAIN handlers :
          (ResolvedToFile(h) /\ NoFault /\ (Ended(h) \/ ~Running))
              => conns[handlers[h].from].sent = Files[handlers[h].song_file]
    /\ NoForeignBytes

-----------------------------------------------------------------------------
(* The event loop and its handlers: C11, C12, under SpecServer. *)

\* A handler that has been dispatched and has not returned.
Outstanding == {h \in DOMAIN handlers : ~Ended(h)}

\* C11: the event loop never waits for a handler.  Whatever call the
\* outstanding handlers are in, the loop's next step can be
\* taken: with an event to process it accepts (the listening descriptor) or
\* dispatches (any other descriptor, while the run has handlers left), and
\* with descriptors ready it returns from the readiness wait.
C11_LoopNeverWaitsForHandlers ==
    Running =>
      /\ (loopPc = "process" /\ LISTEN \in batch) => ENABLED LoopAccept
      /\ \A fd \in ConnFds :
            (loopPc = "process" /\ fd \in batch /\ Len(handlers) < MaxHandlers)
               => ENABLED LoopDispatch(fd)
      /\ (loopPc = "wait" /\ (ready # {} \/ Pending # {})) => ENABLED EpollWait

\* The loop has an event to dispatch and a handler left to start while one
\* earlier handler is in its Read and another in its file read or its Write.
C11_Witness ==
    /\ Running /\ loopPc = "process"
    /\ \E fd \in ConnFds : fd \in batch /\ Len(handlers) < MaxHandlers
    /\ \E h \in DOMAIN handlers : handlers[h].pc = "read"
    /\ \E h \in DOMAIN handlers : handlers[h].pc \in {"send", "close"}

\* The source states no limit on handlers.  HandlerLimit is the largest limit
\* a run that dispatches MaxHandlers handlers could still be seen to exceed.
HandlerLimit == MaxHandlers - 1

\* C12: the number of outstanding handlers (dispatched, not yet returned) is
\* bounded by a fixed limit: it never exceeds HandlerLimit.
C12_OutstandingHandlersBounded == Cardinality(Outstanding) <= HandlerLimit

-----------------------------------------------------------------------------
(* The command loop's failures: C13, C14, under SpecPlayer. *)

\* C13: when the dial to the tracker fails during LIST the command is
\* aborted with the master list unchanged and the process stays alive.
C13_ListDialFailureKeepsProcess == cmdPc = "list_dial" => Running

\* C14: an error other than end of input when the decoder or the audio sink
\* of a session is set up ends only that session: the process keeps running.
C14_SetupErrorEndsOnlyTheSession == procState # "crashed"

-----------------------------------------------------------------------------
(* The master list between the command loop and the handlers: C15, under   *)
(* SpecServer.                                                             *)

\* The values master_list holds in the course of a run.
StoredLists == {<<>>} \cup MasterLists

\* Handler h completes its read of master_list in this step.
ReadsMasterList(h) ==
    /\ h \in DOMAIN handlers /\ handlers[h].pc = "resolve"
    /\ h \in DOMAIN handlers' /\ handlers'[h].pc # "resolve"

\* C15: the replacement of the master list is atomic for its concurrent
\* readers: every read of it yields a complete list that was stored, the old
\* one or the new one, never a mixture of the two.
C15_ReadersSeeACompleteList ==
    [][\A h \in 1..MaxHandlers :
          ReadsMasterList(h) =>
              \A v \in StringAt(LoadedPtr(h), LoadedLen(h)) :
                  ~v.fault /\ v.s \in StoredLists]_vars

-----------------------------------------------------------------------------
(* The server's start: C16, under SpecServer. *)

\* The server is in its loop with a socket that could not be bound or made
\* to listen: at the readiness wait, or processing what the wait returned.
InLoopUnbound == loopPc \in {"wait_unbound", "process_unbound"}

\* C16: when the bind or the listen fails the server aborts: it never enters
\* the readiness-wait loop.
C16_ListenFailureAbortsServer == ~InLoopUnbound

-----------------------------------------------------------------------------
(* QUIT: C17, under SpecPlayer. *)

\* The process has ended in the QUIT command: main returned after it, or
\* send() called by it ended the process.
TerminatedByQuit == ~Running /\ cmdPc \in {"ended", "quit_dial"}

\* C17 as stated: whenever QUIT has ended the process, the QUIT message was
\* sent to the tracker before.
C17_QuitAlwaysNotifies == TerminatedByQuit => quit_sent

\* C17, amended: the command loop ends (handle_command returns -1 and main
\* returns) exactly after a QUIT whose message was sent to the tracker; a
\* process that a QUIT ended without the message is one whose dial failed.
C17_LoopEndsAfterQuitSent ==
    /\ cmdPc = "ended" <=> quit_sent
    /\ (TerminatedByQuit /\ ~quit_sent) => (cmdPc = "quit_dial" /\ procState = "exited")

\* main has returned after a QUIT: the message was sent, the process is over.
C17_Witness == procState = "exited" /\ cmdPc = "ended" /\ quit_sent

-----------------------------------------------------------------------------
(* Accepted descriptors: C18, under SpecServer. *)

\* C18: every accepted descriptor has been put into nonblocking mode by the
\* time it is registered, hence before any handler does I/O on it.
C18_AcceptedIsNonblocking ==
    \A c \in DOMAIN conns : conns[c].state = "accepted" => conns[c].nonblock

-----------------------------------------------------------------------------
(* Who takes the signals: C19, under SpecPlayer. *)

\* The tasks whose state this step changes.
Acted == {t \in DOMAIN tasks : tasks'[t] # tasks[t]}

\* main's send on the play channel, or on the stop channel, completes in this step.
PlayTaken == cmdPc = "play_send" /\ cmdPc' = "prompt"
StopTaken == cmdPc = "stop_send" /\ cmdPc' = "prompt"

\* C19: the play signal of a PLAY command is consumed by the task that
\* command spawned, never by a task left from an earlier PLAY, and a STOP
\* signal by the task of the session that is streaming.
C19_SignalsReachTheirTask ==
    [][/\ PlayTaken => Acted \subseteq {Len(tasks)}
       /\ (StopTaken /\ \E s \in DOMAIN tasks : Streaming(s))
             => \A t \in Acted : Streaming(t)]_vars

-----------------------------------------------------------------------------
(* Handlers and descriptors: C20, under SpecServer. *)

\* The handlers dispatched while the descriptor of their event referred to
\* connection c.
HandlersOf(c) == {h \in DOMAIN handlers : handlers[h].conn = c}

\* Handler h has done its Read on the connection it was dispatched for.
ReadItsOwn(h) == handlers[h].from = handlers[h].conn

\* C20: each accepted connection is handled by at most one handler, and a
\* handler reads only the connection it was dispatched for: never a
\* descriptor number that was closed since, nor one that a later connection
\* has been given.
C20_OneHandlerPerConnection ==
    /\ \A c \in DOMAIN conns : Cardinality(HandlersOf(c)) <= 1
    /\ \A h \in DOMAIN handlers : handlers[h].pc # "read" => ReadItsOwn(h)

=============================================================================
